---- MODULE Spec2Model ----
(***************************************************************************)
(* Model of the incident management agent: the mail fetch loop with its    *)
(* deduplication set, the message parser, the keyword classifier and the   *)
(* per-incident lifecycle (acknowledgement, P1 ticket).                    *)
(* Python str values are TLA+ strings; `in`, lower() and strip() are       *)
(* computed character by character.                                        *)
(***************************************************************************)
EXTENDS Integers, Sequences, FiniteSets, TLC

VARIABLES
    config,                 \* ConfigManager attributes read by the components
    jira_client,            \* JiraHandler.jira_client is set (connection made)
    inbox,                  \* the IMAP inbox: messages by sequence number, each with
                            \* its \Seen flag
    processed_incident_ids, \* EmailHandler.processed_incident_ids
    pc,                     \* position of the agent: "idle" between cycles, "fetch",
                            \* "process", "finished" at the end of the batch loop
    pending,                \* email_imap_uids still to be fetched in this cycle
    new_incidents,          \* the Incident objects of the current cycle, in list order
    produced,               \* history: ids of the Incidents appended to new_incidents
    lifecycle_runs,         \* history: ids _process_single_incident was called with
    issued,                 \* number of issues the Jira server has created
    cycles,                 \* number of check cycles started
    tick                    \* history: alternates at every step of a running cycle,
                            \* 0 between cycles

vars == <<config, jira_client, inbox, processed_incident_ids, pc, pending,
          new_incidents, produced, lifecycle_runs, issued, cycles, tick>>

\* ---------------------------------------------------------------- bounds

MaxLen == 2         \* longest subject and longest body drawn for the classifier
MaxInbox == 2       \* messages that arrive in the inbox in one behaviour
MaxCycles == 2      \* check cycles started in one behaviour

\* ---------------------------------------------------------------- Python values

None == "<None>"

Truthy(x) == x # None /\ x # ""

UpperChars == "ABCDEFGHIJKLMNOPQRSTUVWXYZ"
LowerChars == "abcdefghijklmnopqrstuvwxyz"

CharAt(s, i) == SubSeq(s, i, i)

\* str.lower() on one character
LowerMap ==
    [c \in {CharAt(UpperChars, i) : i \in 1..Len(UpperChars)} |->
        CharAt(LowerChars, CHOOSE i \in 1..Len(UpperChars) : CharAt(UpperChars, i) = c)]

LowerChar(c) == IF c \in DOMAIN LowerMap THEN LowerMap[c] ELSE c

RECURSIVE Lower(_)
Lower(s) ==
    IF s = "" THEN ""
    ELSE LowerChar(CharAt(s, 1)) \o Lower(SubSeq(s, 2, Len(s)))

\* Python's `k in t` for str
Contains(k, t) ==
    \E i \in 1..(Len(t) - Len(k) + 1) : SubSeq(t, i, i + Len(k) - 1) = k

HasChar(chars, c) == \E i \in 1..Len(chars) : CharAt(chars, i) = c

RECURSIVE LStrip(_, _)
LStrip(s, chars) ==
    IF s # "" /\ HasChar(chars, CharAt(s, 1))
    THEN LStrip(SubSeq(s, 2, Len(s)), chars)
    ELSE s

RECURSIVE RStrip(_, _)
RStrip(s, chars) ==
    IF s # "" /\ HasChar(chars, CharAt(s, Len(s)))
    THEN RStrip(SubSeq(s, 1, Len(s) - 1), chars)
    ELSE s

Strip(s, chars) == RStrip(LStrip(s, chars), chars)

Whitespace == " "

\* ---------------------------------------------------------------- models.py

Incident(id, source, subject, body, raw_content) ==
    [id |-> id, source |-> source, subject |-> subject, body |-> body,
     raw_content |-> raw_content,
     priority |-> None, assigned_team |-> None, assigned_team_email |-> None,
     is_acknowledged |-> FALSE, jira_ticket_key |-> None,
     processing_notes |-> <<>>,
     \* history, not fields of the class: the position in the lifecycle, the
     \* sendmail and create_issue calls made for this incident, and the exception
     \* that reached the handler of the batch loop
     stage |-> "Fetched", sends |-> <<>>, creates |-> <<>>, failure |-> None]

\* the note put in the place of the notes taken so far
add_note_Overwrites(incident, note) ==
    [incident EXCEPT !.processing_notes = <<note>>]

add_note(incident, note) ==
    [incident EXCEPT !.processing_notes = Append(@, note)]

\* ---------------------------------------------------------------- config_manager.py

\* A dict is the sequence of its <<key, value>> items in insertion order.
Keys(d) == {d[i][1] : i \in DOMAIN d}

Get(d, k, default) ==
    IF k \in Keys(d) THEN d[CHOOSE i \in DOMAIN d : d[i][1] = k][2] ELSE default

\* str.split(sep) for a one-character separator
RECURSIVE Split(_, _)
Split(s, sep) ==
    IF ~Contains(sep, s) THEN <<s>>
    ELSE LET i == CHOOSE j \in 1..Len(s) :
                    /\ CharAt(s, j) = sep
                    /\ \A h \in 1..(j - 1) : CharAt(s, h) # sep
         IN  <<SubSeq(s, 1, i - 1)>> \o Split(SubSeq(s, i + 1, Len(s)), sep)

RECURSIVE SelectStripped(_)
SelectStripped(parts) ==
    IF parts = <<>> THEN <<>>
    ELSE LET kw == Strip(Head(parts), Whitespace)
         IN  (IF kw # "" THEN <<Lower(kw)>> ELSE <<>>) \o SelectStripped(Tail(parts))

_parse_keywords_string(keyword_string) ==
    SelectStripped(Split(keyword_string, ","))

\* configparser hands out option names lowercased (its default optionxform)
ConfigItems(ini, section) ==
    IF section \in DOMAIN ini
    THEN [i \in DOMAIN ini[section] |->
             <<Lower(ini[section][i][1]), ini[section][i][2]>>]
    ELSE <<>>

ConfigGet(ini, section, option, fallback) ==
    Get(ConfigItems(ini, section), Lower(option), fallback)

_load_keywords_from_section(ini, section_name) ==
    LET items == ConfigItems(ini, section_name)
    IN  [i \in DOMAIN items |-> <<items[i][1], _parse_keywords_string(items[i][2])>>]

PLevelsLowestFirst == <<"P4", "P3", "P2", "P1">>

PLevels == <<"P1", "P2", "P3", "P4">>

RECURSIVE SelectEmails(_)
SelectEmails(items) ==
    IF items = <<>> THEN <<>>
    ELSE (IF Lower(Head(items)[1]) # "defaultteamname"
          THEN <<<<Lower(Head(items)[1]), Head(items)[2]>>>> ELSE <<>>)
         \o SelectEmails(Tail(items))

ConfigManager(ini, env) ==
    LET team_emails == SelectEmails(ConfigItems(ini, "TeamEmails"))
        default_team_name == ConfigGet(ini, "TeamEmails", "DefaultTeamName", "DefaultTeam")
    IN  [agent_name |-> ConfigGet(ini, "General", "AgentName", "IncidentAgent"),
         smtp_server |-> env.SMTP_SERVER,
         smtp_username |-> env.SMTP_USERNAME,
         smtp_password |-> env.SMTP_PASSWORD,
         sender_email |-> env.SENDER_EMAIL,
         jira_url |-> env.JIRA_URL,
         jira_username |-> env.JIRA_USERNAME,
         jira_api_token |-> env.JIRA_API_TOKEN,
         jira_project_key |-> ConfigGet(ini, "Jira", "ProjectKey", "ITSM"),
         team_keywords |-> _load_keywords_from_section(ini, "Teams"),
         team_emails |-> team_emails,
         default_team_name |-> default_team_name,
         default_team_email |->
             Get(team_emails, Lower(default_team_name), "support@example.com"),
         priority_keywords |->
             [i \in DOMAIN PLevels |->
                 <<PLevels[i],
                   _parse_keywords_string(ConfigGet(ini, "PriorityKeywords", PLevels[i], ""))>>]]

\* ---------------------------------------------------------------- incident_classifier.py

\* the text compared as it was written
text_to_scan_CaseSensitive(incident) == incident.subject \o " " \o incident.body

text_to_scan(incident) == Lower(incident.subject \o " " \o incident.body)

\* index of the first keyword of the list that occurs in the text, 0 when none does
FirstKeyword(keywords, text) ==
    IF \E j \in DOMAIN keywords : Contains(keywords[j], text)
    THEN CHOOSE j \in DOMAIN keywords :
            /\ Contains(keywords[j], text)
            /\ \A h \in 1..(j - 1) : ~Contains(keywords[h], text)
    ELSE 0

DefaultPriorityLowest == "P4"

DefaultPriority == "P3"

PriorityNote(p_level, keyword) ==
    "Priority classified as " \o p_level \o " due to keyword: '" \o keyword \o "'."

NoPriorityNote ==
    "No specific priority keywords found. Defaulting priority to " \o DefaultPriority \o "."

RECURSIVE ScanPriorityLevels(_, _, _, _)
ScanPriorityLevels(i, cfg, incident, text) ==
    IF i > Len(PLevels)
    THEN [ret |-> DefaultPriority, incident |-> add_note(incident, NoPriorityNote)]
    ELSE LET p_level == PLevels[i]
             keywords_for_level == Get(cfg.priority_keywords, p_level, <<>>)
             j == FirstKeyword(keywords_for_level, text)
         IN  IF j > 0
             THEN [ret |-> p_level,
                   incident |-> add_note(incident, PriorityNote(p_level, keywords_for_level[j]))]
             ELSE ScanPriorityLevels(i + 1, cfg, incident, text)

\* the method with its final fallback left out: nothing is returned on no match
classify_incident_priority_NoDefault(cfg, incident) ==
    LET r == ScanPriorityLevels(1, cfg, incident, text_to_scan(incident))
    IN  IF r.incident.processing_notes[Len(r.incident.processing_notes)] = NoPriorityNote
        THEN [ret |-> None, incident |-> incident]
        ELSE r

\* returns the priority and the incident with the note appended
classify_incident_priority(cfg, incident) ==
    ScanPriorityLevels(1, cfg, incident, text_to_scan(incident))

NoEmailNote(keyword, team_name_key) ==
    "Keyword '" \o keyword \o "' matched team '" \o team_name_key
    \o "', but no email found for '" \o Lower(team_name_key)
    \o "' in [TeamEmails] section. Assigning to default team instead."

AssignedNote(team_name_key, keyword, team_email) ==
    "Assigned to team '" \o team_name_key \o "' based on keyword: '" \o keyword
    \o "'. Email: " \o team_email

DefaultTeamNote(cfg) ==
    "No specific team keywords matched or issue with matched team's email. "
    \o "Assigning to default team: Name='" \o cfg.default_team_name
    \o "', Email='" \o cfg.default_team_email \o "'."

\* the fallback leaving the incident without a team and without a note
AssignDefault_Unassigned(cfg, incident) ==
    [team |-> None, email |-> None, incident |-> incident]

AssignDefault(cfg, incident) ==
    [team |-> cfg.default_team_name, email |-> cfg.default_team_email,
     incident |-> add_note(incident, DefaultTeamNote(cfg))]

RECURSIVE ScanTeams(_, _, _, _)
ScanTeams(i, cfg, incident, text) ==
    IF i > Len(cfg.team_keywords)
    THEN AssignDefault(cfg, incident)
    ELSE LET team_name_key == cfg.team_keywords[i][1]
             keywords_for_team == cfg.team_keywords[i][2]
             j == FirstKeyword(keywords_for_team, text)
             team_email == Get(cfg.team_emails, Lower(team_name_key), None)
         IN  IF j > 0 /\ Truthy(team_email)
             THEN [team |-> team_name_key, email |-> team_email,
                   incident |-> add_note(incident,
                       AssignedNote(team_name_key, keywords_for_team[j], team_email))]
             ELSE LET noted == IF j > 0
                               THEN add_note(incident,
                                        NoEmailNote(keywords_for_team[j], team_name_key))
                               ELSE incident
                  IN  \* line 97 reads the incident's field, which the caller
                      \* assigns only after this method has returned
                      IF Truthy(incident.assigned_team)
                      THEN AssignDefault(cfg, noted)
                      ELSE ScanTeams(i + 1, cfg, noted, text)

\* the method scanning the team table from its last entry to its first
assign_incident_to_team_LastTeamFirst(cfg, incident) ==
    LET n == Len(cfg.team_keywords)
        backwards == [i \in 1..n |-> cfg.team_keywords[n + 1 - i]]
    IN  ScanTeams(1, [cfg EXCEPT !.team_keywords = backwards], incident,
                  text_to_scan(incident))

\* returns the team name, its address and the incident with the notes appended
assign_incident_to_team(cfg, incident) ==
    ScanTeams(1, cfg, incident, text_to_scan(incident))

\* the priority written into the subject as well
SetPriority_TagsSubject(cfg, incident) ==
    LET r == classify_incident_priority(cfg, incident)
    IN  [r.incident EXCEPT !.priority = r.ret,
                           !.subject = "[" \o r.ret \o "] " \o @]

\* agent.py line 74: incident.priority = classify_incident_priority(incident)
SetPriority(cfg, incident) ==
    LET r == classify_incident_priority(cfg, incident)
    IN  [r.incident EXCEPT !.priority = r.ret]

\* agent.py lines 78-80
SetTeam(cfg, incident) ==
    LET r == assign_incident_to_team(cfg, incident)
    IN  [r.incident EXCEPT !.assigned_team = r.team, !.assigned_team_email = r.email]

\* ---------------------------------------------------------------- configurations

FullEnv ==
    [SMTP_SERVER |-> "smtp.example.com", SMTP_USERNAME |-> "agent",
     SMTP_PASSWORD |-> "secret", SENDER_EMAIL |-> "agent@example.com",
     JIRA_URL |-> "https://jira.example.com", JIRA_USERNAME |-> "agent",
     JIRA_API_TOKEN |-> "token"]

\* rule tables over the letters a and b, for the classifier on its own
IniLevels ==
    [PriorityKeywords |-> << <<"P1", "ab, BB">>, <<"P2", "a">>, <<"P3", "b">> >>,
     Teams |-> << <<"NetTeam", "a">>, <<"DbTeam", "b, ab">> >>,
     TeamEmails |-> << <<"DefaultTeamName", "SupportTeam">>,
                       <<"SupportTeam", "support@x">>, <<"DbTeam", "db@x">> >>]

IniSpaced ==
    [PriorityKeywords |-> << <<"P2", "A b,bb">>, <<"P4", "a">> >>,
     Teams |-> << <<"OpsTeam", "bb">>, <<"NetTeam", "a,">>, <<"DbTeam", "b">> >>,
     TeamEmails |-> << <<"OpsTeam", "ops@x">>, <<"NetTeam", "">>,
                       <<"DbTeam", "db@x">> >>]

IniBare ==
    [TeamEmails |-> <<>>]

ClassifierInis == {IniLevels, IniSpaced, IniBare}

Alphabet == {"a", "b", "A"}

RECURSIVE Texts(_)
Texts(n) ==
    IF n = 0 THEN {""}
    ELSE LET shorter == Texts(n - 1)
         IN  shorter \cup {s \o c : s \in shorter, c \in Alphabet}

\* ---------------------------------------------------------------- the classifier on its own

ClassifierInit ==
    /\ config \in {ConfigManager(ini, FullEnv) : ini \in ClassifierInis}
    /\ new_incidents \in {<<Incident("msg-1", "email", subject, body, "")>> :
                             subject \in Texts(MaxLen), body \in Texts(MaxLen)}
    /\ pc = "classifier"
    /\ jira_client = FALSE
    /\ inbox = <<>>
    /\ processed_incident_ids = {}
    /\ pending = <<>>
    /\ produced = <<>>
    /\ lifecycle_runs = <<>>
    /\ issued = 0
    /\ cycles = 0
    /\ tick = 0

ClassifyPriority ==
    /\ pc = "classifier"
    /\ new_incidents[1].stage = "Fetched"
    /\ new_incidents' =
           <<[SetPriority(config, new_incidents[1]) EXCEPT !.stage = "Prioritized"]>>
    /\ UNCHANGED <<config, jira_client, inbox, processed_incident_ids, pc, pending,
                   produced, lifecycle_runs, issued, cycles, tick>>

AssignTeam ==
    /\ pc = "classifier"
    /\ new_incidents[1].stage = "Prioritized"
    /\ new_incidents' =
           <<[SetTeam(config, new_incidents[1]) EXCEPT !.stage = "Assigned"]>>
    /\ UNCHANGED <<config, jira_client, inbox, processed_incident_ids, pc, pending,
                   produced, lifecycle_runs, issued, cycles, tick>>

\* both methods called once more on the incident as the first calls left it:
\* priority, team and address set, notes appended
ClassifyAgain ==
    /\ pc = "classifier"
    /\ new_incidents[1].stage = "Assigned"
    /\ new_incidents' =
           <<[SetTeam(config, SetPriority(config, new_incidents[1]))
                 EXCEPT !.stage = "Reassigned"]>>
    /\ UNCHANGED <<config, jira_client, inbox, processed_incident_ids, pc, pending,
                   produced, lifecycle_runs, issued, cycles, tick>>

ClassifierNext == ClassifyPriority \/ AssignTeam \/ ClassifyAgain

ClassifierSpec == ClassifierInit /\ [][ClassifierNext]_vars

\* ---------------------------------------------------------------- incident_parser.py

\* A raw e-mail is the record of its header values (None when the header is
\* absent), its text body and its full payload; parses is FALSE for a message
\* on which a header or body operation raises inside the parser's try block.

common_auto_reply_phrases ==
    <<"auto-reply", "out of office", "automatic reply",
      "undeliverable", "delivery status notification", "non-remise">>

HeaderGet(msg, name, default) == IF msg[name] = None THEN default ELSE msg[name]

\* what the caller would get if an exception left the method: no value, and
\* the exception in its own try block. Of length two, to be told from an
\* Optional[Incident].
ParserRaised == <<"Exception", "raised">>

\* line 105: `if incident:`
IsIncident(parsed) == parsed # <<>> /\ parsed # ParserRaised

\* the method without its try block: a message that fails to parse raises
parse_email_to_incident_NoTry(imap_msg_uid, msg, agent_sender_email) ==
    LET subject == HeaderGet(msg, "Subject", "(No Subject)")
        auto_submitted_header == Lower(HeaderGet(msg, "AutoSubmitted", ""))
        message_id_header == HeaderGet(msg, "MessageID", "")
        incident_id == IF message_id_header # ""
                       THEN Strip(message_id_header, "<>")
                       ELSE "imap-uid-" \o imap_msg_uid
    IN  IF ~msg.parses THEN ParserRaised
        ELSE IF \/ \E n \in DOMAIN common_auto_reply_phrases :
                       Contains(common_auto_reply_phrases[n], Lower(subject))
                \/ Truthy(msg.XAutoResponseSuppress)
                      /\ Contains("All", msg.XAutoResponseSuppress)
                \/ auto_submitted_header # "" /\ auto_submitted_header # "no"
                \/ Truthy(agent_sender_email)
                      /\ Lower(msg.From.addr) = Lower(agent_sender_email)
        THEN <<>>
        ELSE <<Incident(incident_id, "email", Strip(subject, Whitespace),
                        Strip(msg.body, Whitespace), msg.payload)>>

\* the method without its filters: every message that parses is an incident
parse_email_to_incident_NoFilters(imap_msg_uid, msg, agent_sender_email) ==
    LET subject == HeaderGet(msg, "Subject", "(No Subject)")
        message_id_header == HeaderGet(msg, "MessageID", "")
        incident_id == IF message_id_header # ""
                       THEN Strip(message_id_header, "<>")
                       ELSE "imap-uid-" \o imap_msg_uid
    IN  IF ~msg.parses THEN <<>>
        ELSE <<Incident(incident_id, "email", Strip(subject, Whitespace),
                        Strip(msg.body, Whitespace), msg.payload)>>

\* Optional[Incident] is <<incident>>, or <<>> for None: a message that is
\* filtered out or fails to parse
parse_email_to_incident(imap_msg_uid, msg, agent_sender_email) ==
    LET subject == HeaderGet(msg, "Subject", "(No Subject)")
        sender_email_address == Lower(msg.From.addr)
        lower_subject == Lower(subject)
        suppress == HeaderGet(msg, "XAutoResponseSuppress", "")
        auto_submitted_header == Lower(HeaderGet(msg, "AutoSubmitted", ""))
        message_id_header == HeaderGet(msg, "MessageID", "")
        incident_id == IF message_id_header # ""
                       THEN Strip(message_id_header, "<>")
                       ELSE "imap-uid-" \o imap_msg_uid
    IN  IF ~msg.parses THEN <<>>
        ELSE IF \E n \in DOMAIN common_auto_reply_phrases :
                    Contains(common_auto_reply_phrases[n], lower_subject)
        THEN <<>>
        ELSE IF Truthy(msg.XAutoResponseSuppress) /\ Contains("All", suppress)
        THEN <<>>
        ELSE IF auto_submitted_header # "" /\ auto_submitted_header # "no"
        THEN <<>>
        ELSE IF Truthy(agent_sender_email)
                /\ sender_email_address = Lower(agent_sender_email)
        THEN <<>>
        ELSE <<Incident(incident_id, "email", Strip(subject, Whitespace),
                        Strip(msg.body, Whitespace), msg.payload)>>

\* ---------------------------------------------------------------- email_handler.py

SmtpConfigured(cfg) ==
    /\ Truthy(cfg.smtp_server)
    /\ Truthy(cfg.sender_email)
    /\ Truthy(cfg.smtp_username)
    /\ Truthy(cfg.smtp_password)

SmtpOutcomes == {"sent", "SMTPException", "Exception"}

\* the method with the state change made before the SMTP conversation
send_acknowledgement_email_AckFirst(cfg, incident, recipient_email, outcome) ==
    LET actual_recipient == IF Truthy(recipient_email) THEN recipient_email
                            ELSE incident.assigned_team_email
        asked == [incident EXCEPT
                     !.is_acknowledged = TRUE,
                     !.sends = Append(@, [to |-> actual_recipient, outcome |-> outcome,
                                          jira_ticket_key |-> incident.jira_ticket_key])]
    IN  IF ~SmtpConfigured(cfg)
        THEN [raised |-> None,
              incident |-> add_note(incident, "Acknowledgement email skipped: SMTP not configured.")]
        ELSE IF ~Truthy(actual_recipient)
        THEN [raised |-> None,
              incident |-> add_note(incident,
                  "Acknowledgement email skipped: No recipient email determined.")]
        ELSE IF outcome = "sent"
        THEN [raised |-> None,
              incident |-> add_note(asked,
                  "Acknowledgement email sent to " \o actual_recipient \o ".")]
        ELSE [raised |-> None,
              incident |-> add_note(asked,
                  "Failed to send acknowledgement email (Unexpected Error): " \o outcome)]

\* outcome is what the SMTP conversation of lines 204-209 does: it completes
\* ("sent") or raises the named exception. Returns the incident and the
\* exception the method lets through (None: it returns normally).
send_acknowledgement_email(cfg, incident, recipient_email, outcome) ==
    LET actual_recipient == IF Truthy(recipient_email) THEN recipient_email
                            ELSE incident.assigned_team_email
        asked == [incident EXCEPT
                     !.sends = Append(@, [to |-> actual_recipient, outcome |-> outcome,
                                          jira_ticket_key |-> incident.jira_ticket_key])]
    IN  IF ~SmtpConfigured(cfg)
        THEN [raised |-> None,
              incident |-> add_note(incident, "Acknowledgement email skipped: SMTP not configured.")]
        ELSE IF ~Truthy(actual_recipient)
        THEN [raised |-> None,
              incident |-> add_note(incident,
                  "Acknowledgement email skipped: No recipient email determined.")]
        ELSE IF outcome = "sent"
        THEN [raised |-> None,
              incident |-> add_note([asked EXCEPT !.is_acknowledged = TRUE],
                  "Acknowledgement email sent to " \o actual_recipient \o ".")]
        ELSE IF outcome = "SMTPException"
        THEN [raised |-> None,
              incident |-> add_note(asked,
                  "Failed to send acknowledgement email (SMTP Error): " \o outcome)]
        ELSE [raised |-> None,
              incident |-> add_note(asked,
                  "Failed to send acknowledgement email (Unexpected Error): " \o outcome)]

\* ---------------------------------------------------------------- jira_handler.py

JiraConfigured(cfg) ==
    /\ Truthy(cfg.jira_url)
    /\ Truthy(cfg.jira_username)
    /\ Truthy(cfg.jira_api_token)

\* "JIRAError(list)": a JIRAError whose response has a JSON body that is a list
JiraOutcomes == {"created", "JIRAError", "JIRAError(list)", "Exception"}

\* lines 114-147: outcome is what jira_client.create_issue does, key the key
\* of the issue it creates. The handler of JIRAError reads the JSON body of the
\* response with error_json.get (lines 131-132): on a list that raises
\* AttributeError inside the except clause, which no clause of the try catches.
create_issue(incident, outcome, key) ==
    LET asked == [incident EXCEPT !.creates = Append(@, [outcome |-> outcome])]
    IN  IF outcome = "created"
        THEN [ret |-> key, raised |-> None,
              incident |-> add_note([asked EXCEPT !.jira_ticket_key = key],
                  "Jira ticket " \o key \o " created successfully.")]
        ELSE IF outcome = "JIRAError"
        THEN [ret |-> None, raised |-> None,
              incident |-> add_note(asked,
                  "Jira API Error creating ticket: " \o outcome \o ".")]
        ELSE IF outcome = "JIRAError(list)"
        THEN [ret |-> None, raised |-> "AttributeError", incident |-> asked]
        ELSE [ret |-> None, raised |-> None,
              incident |-> add_note(asked,
                  "Unexpected error creating Jira ticket: " \o outcome)]

create_jira_ticket_for_incident(client, incident, outcome, key) ==
    IF ~client
    THEN [ret |-> None, raised |-> None,
          incident |-> add_note(incident,
              "Jira client is not initialized or connection failed. Cannot create ticket.")]
    ELSE IF incident.priority # "P1"
    THEN [ret |-> None, raised |-> None,
          incident |-> add_note(incident,
              "Incident priority is " \o incident.priority
              \o ", not P1. Jira ticket creation skipped by rule.")]
    ELSE create_issue(incident, outcome, key)

\* ---------------------------------------------------------------- agent.py

\* the note of reception carrying the number of lifecycles run before it
ReceivedNote_Numbered(cfg) ==
    "Agent '" \o cfg.agent_name \o "' received and started processing incident no. "
    \o ToString(Len(lifecycle_runs) + 1) \o "."

ReceivedNote(cfg) == "Agent '" \o cfg.agent_name \o "' received and started processing."

\* the two calls of the classifier in the other order
ClassifyStep_TeamFirst(cfg, incident) ==
    SetPriority(cfg, SetTeam(cfg, add_note(incident, ReceivedNote(cfg))))

\* lines 70-80
ClassifyStep(cfg, incident) ==
    SetTeam(cfg, SetPriority(cfg, add_note(incident, ReceivedNote(cfg))))

\* the step asking for the send a second time when the first has failed
AcknowledgeStep_SendsAgain(cfg, incident, outcome) ==
    IF Truthy(incident.assigned_team_email)
    THEN LET r == send_acknowledgement_email(cfg, incident,
                                             incident.assigned_team_email, outcome)
         IN  IF r.incident.is_acknowledged THEN r
             ELSE send_acknowledgement_email(cfg, r.incident,
                                             incident.assigned_team_email, outcome)
    ELSE [raised |-> None,
          incident |-> add_note(incident,
              "Acknowledgement email skipped: No assigned team email was determined.")]

\* the acknowledgement asked for when the ticket of a P1 incident is there
AcknowledgeStep_AfterTicket(cfg, incident, outcome) ==
    LET ticketed == IF incident.priority = "P1"
                    THEN [incident EXCEPT !.jira_ticket_key = cfg.jira_project_key \o "-1"]
                    ELSE incident
    IN  IF Truthy(incident.assigned_team_email)
        THEN send_acknowledgement_email(cfg, ticketed, incident.assigned_team_email, outcome)
        ELSE [raised |-> None,
              incident |-> add_note(ticketed,
                  "Acknowledgement email skipped: No assigned team email was determined.")]

\* lines 86-90
AcknowledgeStep(cfg, incident, outcome) ==
    IF Truthy(incident.assigned_team_email)
    THEN send_acknowledgement_email(cfg, incident, incident.assigned_team_email, outcome)
    ELSE [raised |-> None,
          incident |-> add_note(incident,
              "Acknowledgement email skipped: No assigned team email was determined.")]

JiraSkippedNote ==
    "Jira ticket creation skipped: Jira client is not available "
    \o "(e.g., connection failed or not configured). Cannot create P1 ticket."

\* the step with the priority test lost and the Jira call made directly
TicketStep_NoPriorityTest(client, incident, outcome, key) ==
    IF client
    THEN LET r == create_issue(incident, outcome, key)
         IN  [raised |-> r.raised, incident |-> r.incident]
    ELSE [raised |-> None, incident |-> add_note(incident, JiraSkippedNote)]

\* the step handing every incident to the Jira handler, whatever its priority
TicketStep_AsksHandlerAlways(client, incident, outcome, key) ==
    IF client
    THEN LET r == create_jira_ticket_for_incident(client, incident, outcome, key)
         IN  [raised |-> r.raised, incident |-> r.incident]
    ELSE [raised |-> None, incident |-> add_note(incident, JiraSkippedNote)]

\* the step without the agent's own test of the client: a P1 incident goes to
\* the Jira handler also when there is no client
TicketStep_NoClientTest(client, incident, outcome, key) ==
    IF incident.priority = "P1"
    THEN LET r == create_jira_ticket_for_incident(client, incident, outcome, key)
         IN  [raised |-> r.raised, incident |-> r.incident]
    ELSE [raised |-> None, incident |-> incident]

\* lines 94-108
TicketStep(client, incident, outcome, key) ==
    IF incident.priority = "P1"
    THEN IF client
         THEN LET r == create_jira_ticket_for_incident(client, incident, outcome, key)
              IN  [raised |-> r.raised, incident |-> r.incident]
         ELSE [raised |-> None, incident |-> add_note(incident, JiraSkippedNote)]
    ELSE [raised |-> None, incident |-> incident]

\* the handler putting the incident back to unacknowledged and without a ticket
HandleIncidentError_Resets(incident, e) ==
    [add_note(incident, "CRITICAL AGENT ERROR during processing: " \o e)
        EXCEPT !.stage = "Failed", !.failure = e,
               !.is_acknowledged = FALSE, !.jira_ticket_key = None]

\* lines 137-144: the handler around one incident's processing
HandleIncidentError(incident, e) ==
    [add_note(incident, "CRITICAL AGENT ERROR during processing: " \o e)
        EXCEPT !.stage = "Failed", !.failure = e]

\* _process_single_incident run from its first line to its last on one
\* incident, inside the handler of the batch loop, with what the SMTP server
\* and Jira answer
process_single_incident(cfg, client, incident, ack_outcome, ticket_outcome, key) ==
    LET a == AcknowledgeStep(cfg, ClassifyStep(cfg, incident), ack_outcome)
        t == TicketStep(client, a.incident, ticket_outcome, key)
    IN  IF a.raised # None THEN HandleIncidentError(a.incident, a.raised)
        ELSE IF t.raised # None THEN HandleIncidentError(t.incident, t.raised)
        ELSE [t.incident EXCEPT !.stage = "Done"]

Terminal == {"Done", "Failed"}

Unfinished(batch) == {k \in DOMAIN batch : batch[k].stage \notin Terminal}

\* the element the for loop of line 134 is at
Current(batch) == CHOOSE k \in Unfinished(batch) : \A h \in Unfinished(batch) : k <= h

\* where the agent is once an incident has been dealt with: at the next
\* element of the list, or past the loop when there is none
LoopNext(batch) == IF Unfinished(batch) = {} THEN "finished" ELSE "process"

\* the handler placed around the loop instead of inside it
LoopAfterError_Abort(batch) == "finished"

\* no handler at all: the error leaves run_incident_check_cycle
LoopAfterError_Propagates(batch) == "raised"

\* lines 134-144: the handler is inside the loop, which goes on
LoopAfterError(batch) == LoopNext(batch)

\* the outcome of one step of the lifecycle written back into the list
Resolve(batch, k, r, stage) ==
    IF r.raised = None
    THEN [batch EXCEPT ![k] = [r.incident EXCEPT !.stage = stage]]
    ELSE [batch EXCEPT ![k] = HandleIncidentError(r.incident, r.raised)]

AfterStep(batch, r) ==
    IF r.raised = None THEN LoopNext(batch) ELSE LoopAfterError(batch)

\* ---------------------------------------------------------------- deployments and mail

\* only the IMAP account is set: no SMTP server, no Jira account
EnvMailboxOnly ==
    [SMTP_SERVER |-> None, SMTP_USERNAME |-> None, SMTP_PASSWORD |-> None,
     SENDER_EMAIL |-> "agent@example.com",
     JIRA_URL |-> None, JIRA_USERNAME |-> None, JIRA_API_TOKEN |-> None]

IniOps ==
    [General |-> << <<"AgentName", "OpsAgent">> >>,
     PriorityKeywords |-> << <<"P1", "urgent, outage">>, <<"P2", "degraded">>,
                             <<"P4", "question">> >>,
     Teams |-> << <<"DatabaseTeam", "db, database">> >>,
     TeamEmails |-> << <<"DefaultTeamName", "SupportTeam">>,
                       <<"SupportTeam", "support@example.com">>,
                       <<"DatabaseTeam", "dba@example.com">> >>]

\* no address for the matched team and an empty one for the default team
IniNoAddress ==
    [PriorityKeywords |-> << <<"P1", "urgent, outage">> >>,
     Teams |-> << <<"DatabaseTeam", "db, database">> >>,
     TeamEmails |-> << <<"DefaultTeamName", "SupportTeam">>, <<"SupportTeam", "">> >>]

Deployments == {<<IniOps, FullEnv>>, <<IniOps, EnvMailboxOnly>>, <<IniNoAddress, FullEnv>>}

Mail(payload, message_id, from, subject, body) ==
    [payload |-> payload, MessageID |-> message_id, From |-> [name |-> "", addr |-> from],
     Subject |-> subject, XAutoResponseSuppress |-> None, AutoSubmitted |-> None,
     body |-> body, parses |-> TRUE]

MailOutage ==
    Mail("outage", "<m1@mail>", "Alice@Example.com",
         "URGENT: Database outage", "production db is down")

MailGlitch ==
    Mail("glitch", None, "bob@example.com", "minor UI glitch", "button misaligned")

MailAutoReply ==
    Mail("auto-reply", "<m3@mail>", "carol@example.com",
         "Automatic Reply: Out of Office", "back on Monday")

\* no outbound address set
EnvNoSender ==
    [SMTP_SERVER |-> "smtp.example.com", SMTP_USERNAME |-> "agent",
     SMTP_PASSWORD |-> "secret", SENDER_EMAIL |-> None,
     JIRA_URL |-> None, JIRA_USERNAME |-> None, JIRA_API_TOKEN |-> None]

\* the same message may arrive more than once
Mails == {MailOutage, MailGlitch, MailAutoReply}

\* ---------------------------------------------------------------- the agent

Init ==
    /\ \E d \in Deployments : config = ConfigManager(d[1], d[2])
    \* JiraHandler.__init__: the connection is made, or fails and leaves None
    /\ jira_client \in (IF JiraConfigured(config) THEN BOOLEAN ELSE {FALSE})
    /\ inbox = <<>>
    /\ processed_incident_ids = {}
    /\ pc = "idle"
    /\ pending = <<>>
    /\ new_incidents = <<>>
    /\ produced = <<>>
    /\ lifecycle_runs = <<>>
    /\ issued = 0
    /\ cycles = 0
    /\ tick = 0

\* A message reaches the inbox. Mail that arrives while a cycle runs is not in
\* that cycle's search result, so arrivals are taken between cycles.
Arrive(m) ==
    /\ pc = "idle"
    /\ Len(inbox) < MaxInbox
    /\ inbox' = Append(inbox, [msg |-> m, seen |-> FALSE])
    /\ UNCHANGED <<config, jira_client, processed_incident_ids, pc, pending,
                   new_incidents, produced, lifecycle_runs, issued, cycles, tick>>

RECURSIVE Unseen(_, _)
Unseen(box, n) ==
    IF n > Len(box) THEN <<>>
    ELSE (IF box[n].seen THEN <<>> ELSE <<n>>) \o Unseen(box, n + 1)

\* run_incident_check_cycle up to the loop of fetch_new_incidents_from_email:
\* the IMAP connection and the UNSEEN search (email_handler.py lines 60-78)
StartCycle(connected, search_status) ==
    /\ pc = "idle"
    /\ cycles < MaxCycles
    /\ cycles' = cycles + 1
    /\ new_incidents' = <<>>
    /\ LET email_imap_uids == Unseen(inbox, 1)
       IN  IF connected /\ search_status = "OK" /\ email_imap_uids # <<>>
           THEN pc' = "fetch" /\ pending' = email_imap_uids
           ELSE pc' = "idle" /\ pending' = <<>>
    /\ UNCHANGED <<config, jira_client, inbox, processed_incident_ids,
                   produced, lifecycle_runs, issued, tick>>

\* the test answering that nothing was processed before
AlreadyProcessed_Never(ids, id) == FALSE

\* the dedup test of line 106
AlreadyProcessed(ids, id) == id \in ids

\* the agent going back to waiting whatever the list holds
AfterFetch_DropsBatch(batch) == "idle"

\* the function's return and lines 129-134 of the agent
AfterFetch(batch) == IF batch = <<>> THEN "idle" ELSE "process"

\* One iteration of the loop of lines 80-126. fetch is what mail_server.fetch
\* does: status OK with the RFC822 part ("OK"), another status ("NO"), status OK
\* without the part ("empty"), or an exception ("error"); store is what
\* mail_server.store does: it sets the flag ("OK"), answers another status, which
\* the code does not look at ("NO"), or raises ("error"). An exception, also
\* one out of the parser, ends the loop (lines 133-136) and the list built so
\* far is returned.
FetchMessage(fetch, store) ==
    /\ pc = "fetch"
    /\ LET uid == Head(pending)
           parsed == parse_email_to_incident(ToString(uid), inbox[uid].msg,
                                             config.sender_email)
           incident == parsed[1]
           is_new == IsIncident(parsed)
                     /\ ~AlreadyProcessed(processed_incident_ids, incident.id)
           failed == \/ fetch = "error"
                     \/ fetch = "OK" /\ (parsed = ParserRaised \/ store = "error")
           rest == IF failed THEN <<>> ELSE Tail(pending)
       IN  /\ pending' = rest
           /\ IF fetch = "OK" /\ is_new
              THEN /\ new_incidents' = Append(new_incidents, incident)
                   /\ processed_incident_ids' = processed_incident_ids \cup {incident.id}
                   /\ produced' = Append(produced, incident.id)
              ELSE UNCHANGED <<new_incidents, processed_incident_ids, produced>>
           /\ inbox' = IF fetch = "OK" /\ parsed # ParserRaised /\ store = "OK"
                       THEN [inbox EXCEPT ![uid].seen = TRUE] ELSE inbox
           /\ pc' = IF rest = <<>> THEN AfterFetch(new_incidents') ELSE "fetch"
    /\ tick' = IF pc' = "idle" THEN 0 ELSE 1 - tick
    /\ UNCHANGED <<config, jira_client, lifecycle_runs, issued, cycles>>

\* _process_single_incident, lines 70-80
Classify ==
    /\ pc = "process"
    /\ LET k == Current(new_incidents)
       IN  /\ new_incidents[k].stage = "Fetched"
           /\ new_incidents' =
                  [new_incidents EXCEPT
                      ![k] = [ClassifyStep(config, new_incidents[k])
                                 EXCEPT !.stage = "Classified"]]
           /\ lifecycle_runs' = Append(lifecycle_runs, new_incidents[k].id)
    /\ tick' = 1 - tick
    /\ UNCHANGED <<config, jira_client, inbox, processed_incident_ids, pc, pending,
                   produced, issued, cycles>>

\* _process_single_incident, lines 83-91
Acknowledge(outcome) ==
    /\ pc = "process"
    /\ LET k == Current(new_incidents)
           r == AcknowledgeStep(config, new_incidents[k], outcome)
       IN  /\ new_incidents[k].stage = "Classified"
           /\ new_incidents' = Resolve(new_incidents, k, r, "AckResolved")
           /\ pc' = AfterStep(new_incidents', r)
    /\ tick' = 1 - tick
    /\ UNCHANGED <<config, jira_client, inbox, processed_incident_ids, pending,
                   produced, lifecycle_runs, issued, cycles>>

\* _process_single_incident, lines 93-116
Ticket(outcome) ==
    /\ pc = "process"
    /\ LET k == Current(new_incidents)
           key == config.jira_project_key \o "-" \o ToString(issued + 1)
           r == TicketStep(jira_client, new_incidents[k], outcome, key)
       IN  /\ new_incidents[k].stage = "AckResolved"
           /\ new_incidents' = Resolve(new_incidents, k, r, "Done")
           /\ issued' = IF r.incident.jira_ticket_key = key THEN issued + 1 ELSE issued
           /\ pc' = AfterStep(new_incidents', r)
    /\ tick' = 1 - tick
    /\ UNCHANGED <<config, jira_client, inbox, processed_incident_ids, pending,
                   produced, lifecycle_runs, cycles>>

\* lines 146-153: run_incident_check_cycle returns; the list was its local
EndCycle ==
    /\ pc = "finished"
    /\ pc' = "idle"
    /\ new_incidents' = <<>>
    /\ tick' = 0
    /\ UNCHANGED <<config, jira_client, inbox, processed_incident_ids, pending,
                   produced, lifecycle_runs, issued, cycles>>

\* the steps of a cycle that is under way
AgentStep ==
    \/ \E fetch \in {"OK", "NO", "empty", "error"} :
           \E store \in (IF fetch = "OK" THEN {"OK", "NO", "error"} ELSE {"not called"}) :
               FetchMessage(fetch, store)
    \/ Classify
    \/ \E outcome \in SmtpOutcomes : Acknowledge(outcome)
    \/ \E outcome \in JiraOutcomes : Ticket(outcome)
    \/ EndCycle

Next ==
    \/ \E m \in Mails : Arrive(m)
    \/ \E connected \in BOOLEAN, search_status \in {"OK", "NO"} :
           StartCycle(connected, search_status)
    \/ AgentStep

Spec == Init /\ [][Next]_vars

\* AgentStep as the scheduler sees it: a cycle is under way and moves on
Running == pc # "idle" /\ tick' = 1 - tick

\* A cycle runs to completion once started: every call made in it returns, so
\* while a cycle is under way the agent takes its next step.
FairSpec == Spec /\ WF_tick(Running)

\* ---------------------------------------------------------------- the parser on its own

RawSubjects ==
    {None, "disk full", "Automatic Reply: Out of Office", "RE: Auto-Reply from Bob",
     "Undeliverable: disk full"}

RawSuppress == {None, "All", "all", "OOF, AutoReply"}

RawAutoSubmitted == {None, "", "no", "No", "auto-replied", "AUTO-GENERATED"}

RawSenders == {"bob@example.com", "Agent@Example.COM", ""}

RawMessageIds == {None, "", "<m2@mail>", "m3@mail", "<>"}

\* raw messages over these header values, parsing or not
RawMessages(payload) ==
    {[payload |-> payload, MessageID |-> id, From |-> [name |-> "", addr |-> from],
      Subject |-> subject, XAutoResponseSuppress |-> suppress,
      AutoSubmitted |-> auto, body |-> " see attachment ", parses |-> parses] :
        id \in RawMessageIds, from \in RawSenders, subject \in RawSubjects,
        suppress \in RawSuppress, auto \in RawAutoSubmitted, parses \in BOOLEAN}

\* a batch of two unseen messages, one of them any raw message, after the
\* UNSEEN search of a cycle
ParserInit ==
    /\ config \in {ConfigManager(IniOps, FullEnv), ConfigManager(IniOps, EnvNoSender)}
    /\ \E m \in RawMessages("any") :
           inbox \in {<<[msg |-> m, seen |-> FALSE], [msg |-> MailOutage, seen |-> FALSE]>>,
                      <<[msg |-> MailOutage, seen |-> FALSE], [msg |-> m, seen |-> FALSE]>>}
    /\ pending = Unseen(inbox, 1)
    /\ pc = "fetch"
    /\ jira_client = FALSE
    /\ processed_incident_ids = {}
    /\ new_incidents = <<>>
    /\ produced = <<>>
    /\ lifecycle_runs = <<>>
    /\ issued = 0
    /\ cycles = 0
    /\ tick = 0

\* one message fetched, parsed and marked as seen
Normalize == FetchMessage("OK", "OK")

ParserNext == Normalize

ParserSpec == ParserInit /\ [][ParserNext]_vars

\* ---------------------------------------------------------------- a mailbox with ids of both kinds

\* a message whose Message-ID has the form of the fallback id
MailForged ==
    Mail("forged", "<imap-uid-2>", "mallory@example.com", "printer jam", "tray 2 is stuck")

IdMails == {MailForged, MailGlitch, MailOutage}

\* the agent before its first cycle, two messages waiting in the mailbox
IdInit ==
    /\ \E d \in Deployments : config = ConfigManager(d[1], d[2])
    /\ jira_client \in (IF JiraConfigured(config) THEN BOOLEAN ELSE {FALSE})
    /\ inbox \in {<<[msg |-> a, seen |-> FALSE], [msg |-> b, seen |-> FALSE]>> :
                      a \in IdMails, b \in IdMails}
    /\ processed_incident_ids = {}
    /\ pc = "idle"
    /\ pending = <<>>
    /\ new_incidents = <<>>
    /\ produced = <<>>
    /\ lifecycle_runs = <<>>
    /\ issued = 0
    /\ cycles = 0
    /\ tick = 0

IdNext ==
    \/ \E connected \in BOOLEAN, search_status \in {"OK", "NO"} :
           StartCycle(connected, search_status)
    \/ AgentStep

IdSpec == IdInit /\ [][IdNext]_vars

\* the cycles over that mailbox, each run to completion once started
FairIdSpec == IdSpec /\ WF_tick(Running)

\* ---------------------------------------------------------------- the agent from its construction

\* a configuration file without the section [TeamEmails]
IniNoTeamEmails ==
    [General |-> << <<"AgentName", "OpsAgent">> >>,
     PriorityKeywords |-> << <<"P1", "urgent, outage">> >>,
     Teams |-> << <<"DatabaseTeam", "db, database">> >>]

\* what the process finds on disk: config.ini, or no such file (<<>>), and .env
ConfigFiles ==
    {[ini |-> f, env |-> FullEnv] :
        f \in {<<>>, <<IniOps>>, <<IniBare>>, <<IniNoTeamEmails>>}}

\* config.read of a file that is not there reads nothing
ReadIni(files) == IF files.ini = <<>> THEN <<>> ELSE files.ini[1]

\* a construction in which nothing is raised
ConfigManagerRaises_Never(files) == FALSE

\* ConfigManager.__init__ raises FileNotFoundError when the file is missing
\* (lines 25-27) and NoSectionError when config.items finds no [TeamEmails]
\* (line 62)
ConfigManagerRaises(files) ==
    \/ files.ini = <<>>
    \/ "TeamEmails" \notin DOMAIN ReadIni(files)

\* Before the agent is constructed config stands for the files on disk.
StartupInit ==
    /\ config \in ConfigFiles
    /\ jira_client = FALSE
    /\ inbox = <<>>
    /\ processed_incident_ids = {}
    /\ pc = "startup"
    /\ pending = <<>>
    /\ new_incidents = <<>>
    /\ produced = <<>>
    /\ lifecycle_runs = <<>>
    /\ issued = 0
    /\ cycles = 0
    /\ tick = 0

\* IncidentManagementAgent.__init__: the error of ConfigManager is logged and
\* raised again, the process ends before start_agent
Construct ==
    /\ pc = "startup"
    /\ IF ConfigManagerRaises(config)
       THEN pc' = "raised" /\ UNCHANGED <<config, jira_client>>
       ELSE /\ config' = ConfigManager(ReadIni(config), config.env)
            /\ jira_client' \in (IF JiraConfigured(config') THEN BOOLEAN ELSE {FALSE})
            /\ pc' = "idle"
    /\ UNCHANGED <<inbox, processed_incident_ids, pending, new_incidents, produced,
                   lifecycle_runs, issued, cycles, tick>>

StartupNext ==
    \/ Construct
    \/ \E m \in Mails : Arrive(m)
    \/ \E connected \in BOOLEAN, search_status \in {"OK", "NO"} :
           StartCycle(connected, search_status)
    \/ AgentStep

StartupSpec == StartupInit /\ [][StartupNext]_vars

\* ---------------------------------------------------------------- claims on the classifier

ScannedText(incident) == Lower(incident.subject \o " " \o incident.body)

LevelKeywords(cfg, level) ==
    LET hits == {i \in DOMAIN cfg.priority_keywords : cfg.priority_keywords[i][1] = level}
    IN  IF hits = {} THEN <<>> ELSE cfg.priority_keywords[CHOOSE i \in hits : TRUE][2]

LevelMatches(cfg, level, incident) ==
    \E j \in DOMAIN LevelKeywords(cfg, level) :
        Contains(LevelKeywords(cfg, level)[j], ScannedText(incident))

MatchingLevels(cfg, incident) ==
    {n \in 1..4 : LevelMatches(cfg, <<"P1", "P2", "P3", "P4">>[n], incident)}

LastNote(incident) == incident.processing_notes[Len(incident.processing_notes)]

\* C7: after the classification step the priority of every incident, under
\* every rule table, is one of P1, P2, P3, P4: never unset, never another value.
C7_PriorityInClosedSet ==
    \A i \in DOMAIN new_incidents :
        new_incidents[i].stage # "Fetched"
            => new_incidents[i].priority \in {"P1", "P2", "P3", "P4"}

C7_Witness ==
    \E i \in DOMAIN new_incidents :
        /\ new_incidents[i].stage = "Prioritized"
        /\ new_incidents[i].priority = "P4"
        /\ MatchingLevels(config, new_incidents[i]) = {4}

\* C8 as stated: the priority is P3 if and only if no keyword of any level
\* occurs in the lowercased subject-plus-body text, and then the note says that
\* no keyword matched.
C8_DefaultIffNoKeyword ==
    \A i \in DOMAIN new_incidents :
        new_incidents[i].stage = "Prioritized"
            => /\ new_incidents[i].priority = "P3" <=> MatchingLevels(config, new_incidents[i]) = {}
               /\ MatchingLevels(config, new_incidents[i]) = {}
                      => LastNote(new_incidents[i]) = NoPriorityNote

\* C8 amended: when no keyword of any level occurs in the text the priority is
\* P3 and the note says that no keyword matched; that note is appended only in
\* this case; and a priority of P3 means that no keyword occurs or that P3 is the
\* highest level with a keyword in the text.
C8_DefaultWhenNoKeyword ==
    \A i \in DOMAIN new_incidents :
        new_incidents[i].stage = "Prioritized"
            => LET matching == MatchingLevels(config, new_incidents[i])
               IN  /\ matching = {} => new_incidents[i].priority = "P3"
                   /\ matching = {} <=> LastNote(new_incidents[i]) = NoPriorityNote
                   /\ new_incidents[i].priority = "P3"
                          => matching = {} \/ (3 \in matching /\ matching \cap {1, 2} = {})

C8_Witness ==
    \E i \in DOMAIN new_incidents :
        /\ new_incidents[i].stage = "Prioritized"
        /\ new_incidents[i].body = "b"
        /\ \E n \in 1..4 : LevelKeywords(config, <<"P1", "P2", "P3", "P4">>[n]) # <<>>
        /\ MatchingLevels(config, new_incidents[i]) = {}
        /\ new_incidents[i].priority = "P3"
        /\ new_incidents[i].processing_notes = <<NoPriorityNote>>

\* C9: when keywords of two or more levels occur in the text, the priority is
\* the highest-severity level among the matching ones, wherever the keywords
\* stand in the text and in their lists, and the note names the first keyword of
\* that level, in list order, that occurs in the text.
C9_HighestLevelWins ==
    \A i \in DOMAIN new_incidents :
        LET matching == MatchingLevels(config, new_incidents[i])
        IN  new_incidents[i].stage = "Prioritized" /\ Cardinality(matching) >= 2
            => LET top == CHOOSE n \in matching : \A m \in matching : n <= m
                   level == <<"P1", "P2", "P3", "P4">>[top]
                   kws == LevelKeywords(config, level)
               IN  /\ new_incidents[i].priority = level
                   /\ \E j \in DOMAIN kws :
                         /\ Contains(kws[j], ScannedText(new_incidents[i]))
                         /\ \A h \in 1..(j - 1) : ~Contains(kws[h], ScannedText(new_incidents[i]))
                         /\ LastNote(new_incidents[i]) =
                                "Priority classified as " \o level
                                \o " due to keyword: '" \o kws[j] \o "'."

\* three levels match; the P3 keyword stands first in the text, and of the two
\* P1 keywords the second of the list stands first in the text
C9_Witness ==
    \E i \in DOMAIN new_incidents :
        /\ new_incidents[i].stage = "Prioritized"
        /\ new_incidents[i].subject = "bb"
        /\ new_incidents[i].body = "Ab"
        /\ MatchingLevels(config, new_incidents[i]) = {1, 2, 3}
        /\ new_incidents[i].priority = "P1"
        /\ LastNote(new_incidents[i]) = "Priority classified as P1 due to keyword: 'ab'."

TeamMatches(cfg, n, incident) ==
    \E j \in DOMAIN cfg.team_keywords[n][2] :
        Contains(cfg.team_keywords[n][2][j], ScannedText(incident))

TeamAddress(cfg, n) ==
    LET hits == {e \in DOMAIN cfg.team_emails :
                    cfg.team_emails[e][1] = Lower(cfg.team_keywords[n][1])}
    IN  IF hits = {} THEN "" ELSE cfg.team_emails[CHOOSE e \in hits : TRUE][2]

MatchingTeams(cfg, incident) ==
    {n \in DOMAIN cfg.team_keywords : TeamMatches(cfg, n, incident)}

FirstMatchingTeam(cfg, incident) ==
    CHOOSE n \in MatchingTeams(cfg, incident) :
        \A m \in MatchingTeams(cfg, incident) : n <= m

HasFallbackNote(incident) ==
    \E k \in DOMAIN incident.processing_notes :
        Contains("Assigning to default team instead.", incident.processing_notes[k])

\* C10: when the first team in configured order with a keyword in the text has
\* no configured address, the result is the default team name and the default
\* address, with a note on the fallback, also when a later team that has an
\* address matches as well.
C10_FallbackStopsScan ==
    \A i \in DOMAIN new_incidents :
        /\ new_incidents[i].stage = "Assigned"
        /\ MatchingTeams(config, new_incidents[i]) # {}
        /\ TeamAddress(config, FirstMatchingTeam(config, new_incidents[i])) = ""
        => /\ new_incidents[i].assigned_team = config.default_team_name
           /\ new_incidents[i].assigned_team_email = config.default_team_email
           /\ HasFallbackNote(new_incidents[i])

ClassifierTables == {<<ConfigManager(ini, FullEnv), ini>> : ini \in ClassifierInis}

\* the keywords of a section as they are written in the file, trimmed
RawKeywords(ini, section, options) ==
    IF section \notin DOMAIN ini THEN {}
    ELSE UNION {LET parts == Split(ini[section][i][2], ",")
                IN  {Strip(parts[j], Whitespace) : j \in DOMAIN parts} \ {""} :
                i \in {h \in DOMAIN ini[section] : Lower(ini[section][h][1]) \in options}}

\* keyword and text compared as substrings without regard to case
MatchesIgnoringCase(keyword, incident) ==
    Contains(Lower(keyword), Lower(incident.subject \o " " \o incident.body))

\* C26: a keyword matches when it occurs in the subject-plus-body text as a
\* substring, compared without regard to case, and only then: the priority
\* falls to the default exactly when no priority keyword of the file occurs so,
\* and the team scan notes nothing but the default exactly when no team keyword
\* of the file occurs so.
C26_CaseInsensitiveSubstring ==
    \A t \in ClassifierTables :
        t[1] = config /\ new_incidents[1].stage = "Assigned"
        => LET incident == new_incidents[1]
               notes == incident.processing_notes
               levels == RawKeywords(t[2], "PriorityKeywords", {"p1", "p2", "p3", "p4"})
               teams == RawKeywords(t[2], "Teams",
                                    {Lower(t[2].Teams[i][1]) : i \in DOMAIN t[2].Teams})
           IN  /\ notes[1] = NoPriorityNote
                      <=> \A k \in levels : ~MatchesIgnoringCase(k, incident)
               /\ (Len(notes) = 2 /\ notes[2] = DefaultTeamNote(config))
                      <=> \A k \in teams : ~MatchesIgnoringCase(k, incident)

\* the keyword written "BB" has matched the body "bb", and a team keyword the
\* text of the subject "A" and the body
C26_Witness ==
    /\ pc = "classifier"
    /\ new_incidents[1].stage = "Assigned"
    /\ new_incidents[1].subject = "A"
    /\ new_incidents[1].body = "bb"
    /\ new_incidents[1].processing_notes[1] = PriorityNote("P1", "bb")
    /\ new_incidents[1].assigned_team = "dbteam"

\* ---------------------------------------------------------------- claims on the parser

\* the four grounds on which a message is not an incident
SubjectIsAutoReply(msg) ==
    \E n \in DOMAIN common_auto_reply_phrases :
        Contains(common_auto_reply_phrases[n], Lower(HeaderGet(msg, "Subject", "(No Subject)")))

SuppressesAutoResponses(msg) ==
    msg.XAutoResponseSuppress # None /\ Contains("All", msg.XAutoResponseSuppress)

MachineGenerated(msg) ==
    /\ msg.AutoSubmitted # None
    /\ msg.AutoSubmitted # ""
    /\ Lower(msg.AutoSubmitted) # "no"

SentByAgent(msg, agent_sender_email) ==
    /\ Truthy(agent_sender_email)
    /\ Lower(msg.From.addr) = Lower(agent_sender_email)

FilterApplies(msg, agent_sender_email) ==
    \/ SubjectIsAutoReply(msg)
    \/ SuppressesAutoResponses(msg)
    \/ MachineGenerated(msg)
    \/ SentByAgent(msg, agent_sender_email)

\* the incidents of the batch made from the message at place u of the inbox
FromMessage(u) ==
    {k \in DOMAIN new_incidents : new_incidents[k].raw_content = inbox[u].msg.payload}

\* C17: a message handled by the fetch loop yields no incident when its subject
\* contains, in any case, one of the fixed auto-reply phrases; when its
\* X-Auto-Response-Suppress header contains All; when its Auto-Submitted header
\* has a value other than "no"; or when its sender address is, in any case, the
\* agent's own address. A message with none of the four that parses yields
\* exactly one incident.
C17_FiltersDecideRejection ==
    \A u \in DOMAIN inbox :
        inbox[u].seen
        => LET m == inbox[u].msg
           IN  /\ SubjectIsAutoReply(m) => FromMessage(u) = {}
               /\ SuppressesAutoResponses(m) => FromMessage(u) = {}
               /\ MachineGenerated(m) => FromMessage(u) = {}
               /\ SentByAgent(m, config.sender_email) => FromMessage(u) = {}
               /\ ~FilterApplies(m, config.sender_email) /\ m.parses
                      => Cardinality(FromMessage(u)) = 1

\* the first message of the batch is rejected on the one ground that its
\* sender is the agent, written in another case; the second one is an incident
C17_Witness ==
    /\ Len(inbox) = 2
    /\ inbox[1].seen /\ inbox[2].seen
    /\ inbox[1].msg.parses
    /\ inbox[1].msg.From.addr = "Agent@Example.COM"
    /\ config.sender_email = "agent@example.com"
    /\ ~SubjectIsAutoReply(inbox[1].msg)
    /\ ~SuppressesAutoResponses(inbox[1].msg)
    /\ ~MachineGenerated(inbox[1].msg)
    /\ FromMessage(1) = {}
    /\ FromMessage(2) = {1}

\* C18: no exception leaves the parser: the fetch loop gets through the whole
\* batch, so that every message is handled and marked as seen, also the one that
\* follows a message whose parsing failed; each message has given one incident
\* or none, and a message whose parsing failed has given none.
C18_ParserNeverRaises ==
    /\ pc # "fetch" => \A u \in DOMAIN inbox : inbox[u].seen
    /\ \A u \in DOMAIN inbox :
          /\ inbox[u].seen => Cardinality(FromMessage(u)) <= 1
          /\ ~inbox[u].msg.parses => FromMessage(u) = {}
          /\ pc # "fetch" /\ inbox[u].msg = MailOutage => Cardinality(FromMessage(u)) = 1

\* the first message of the batch failed to parse and has no other ground for
\* rejection; the second one was parsed into the only incident of the batch
C18_Witness ==
    /\ pc = "process"
    /\ Len(inbox) = 2
    /\ ~inbox[1].msg.parses
    /\ ~FilterApplies(inbox[1].msg, config.sender_email)
    /\ inbox[1].seen /\ inbox[2].seen
    /\ FromMessage(1) = {}
    /\ FromMessage(2) = {1}
    /\ Len(new_incidents) = 1

\* C20: every incident the parser produces has a non-empty id: the Message-ID
\* without its angle brackets when the message has that header, and imap-uid-
\* followed by the IMAP identifier of the message otherwise.
C20_IdNonEmpty ==
    \A u \in DOMAIN inbox :
        \A k \in FromMessage(u) :
            LET message_id == inbox[u].msg.MessageID
            IN  /\ new_incidents[k].id # ""
                /\ Truthy(message_id) => new_incidents[k].id = Strip(message_id, "<>")
                /\ ~Truthy(message_id) => new_incidents[k].id = "imap-uid-" \o ToString(u)

\* a message whose Message-ID is <> has become an incident with the empty id,
\* and the empty id is in the set of processed ids
C20_Witness ==
    \E u \in DOMAIN inbox :
        \E k \in FromMessage(u) :
            /\ inbox[u].msg.MessageID = "<>"
            /\ new_incidents[k].id = ""
            /\ "" \in processed_incident_ids

\* what the parser makes of the message at place u of the mailbox
Parsed(u) == parse_email_to_incident(ToString(u), inbox[u].msg, config.sender_email)

\* C21: two different messages never get the same id, an id made from the IMAP
\* identifier never equals one made from a Message-ID, and so a message is
\* left out as already processed only if that same message gave an incident
\* before: in the first cycle every message that was handled, is an incident
\* for the parser and differs from the other messages is in the cycle's list.
C21_DistinctMessagesDistinctIds ==
    \A u \in DOMAIN inbox :
        IsIncident(Parsed(u))
        => /\ \A v \in DOMAIN inbox :
                 inbox[v].msg # inbox[u].msg /\ IsIncident(Parsed(v))
                     => Parsed(v)[1].id # Parsed(u)[1].id
           /\ /\ cycles <= 1
              /\ inbox[u].seen
              /\ \A v \in DOMAIN inbox : v # u => inbox[v].msg # inbox[u].msg
              => FromMessage(u) # {}

\* the message without a Message-ID at place 2 was left out as already
\* processed after a message with the Message-ID <imap-uid-2>, and marked as seen
C21_Witness ==
    /\ Len(inbox) = 2
    /\ inbox[1].msg = MailForged /\ inbox[2].msg = MailGlitch
    /\ inbox[1].seen /\ inbox[2].seen
    /\ pc = "process"
    /\ processed_incident_ids = {"imap-uid-2"}
    /\ Len(new_incidents) = 1
    /\ new_incidents[1].subject = "printer jam"
    /\ FromMessage(2) = {}

\* ---------------------------------------------------------------- claims on the agent

Count(seq, x) == Cardinality({n \in DOMAIN seq : seq[n] = x})

HasNote(incident, text) ==
    \E n \in DOMAIN incident.processing_notes :
        Contains(text, incident.processing_notes[n])

StartsWith(s, prefix) ==
    Len(s) >= Len(prefix) /\ SubSeq(s, 1, Len(prefix)) = prefix

HasNoteStarting(incident, prefix) ==
    \E n \in DOMAIN incident.processing_notes :
        StartsWith(incident.processing_notes[n], prefix)

\* the incident as the parser makes it, with the same subject and body
Fresh(incident) ==
    Incident(incident.id, incident.source, incident.subject, incident.body,
             incident.raw_content)

\* C13: for a fixed rule table the results of both methods depend only on the
\* subject and body: a call on an incident whose other fields were set by
\* earlier calls returns what a call on a fresh incident with the same subject
\* and body returns.
C13_SameTextSameResult ==
    \A i \in DOMAIN new_incidents :
        new_incidents[i].stage = "Reassigned"
        => LET first == Fresh(new_incidents[i])
           IN  /\ new_incidents[i].priority = classify_incident_priority(config, first).ret
               /\ new_incidents[i].assigned_team = assign_incident_to_team(config, first).team
               /\ new_incidents[i].assigned_team_email =
                      assign_incident_to_team(config, first).email

\* the second call on an incident that the first call gave to the third team
\* of the table
C13_Witness ==
    \E i \in DOMAIN new_incidents :
        /\ new_incidents[i].stage = "Reassigned"
        /\ new_incidents[i].subject = "b"
        /\ new_incidents[i].body = ""
        /\ assign_incident_to_team(config, Fresh(new_incidents[i])).team = "dbteam"
        /\ MatchingTeams(config, new_incidents[i]) = {3}

\* the incident has been through the classification step of the lifecycle
IsClassified(incident) == incident.stage \notin {"Fetched", "Prioritized"}

\* the configurations the agent runs under and the texts of the incidents
\* its mail is turned into
AgentConfigs == {ConfigManager(d[1], d[2]) : d \in Deployments}

MailTexts ==
    {<<Strip(HeaderGet(m, "Subject", "(No Subject)"), Whitespace),
       Strip(m.body, Whitespace)>> : m \in Mails}

NoKeywordIn(keyword_lists, text) ==
    \A n \in DOMAIN keyword_lists :
        \A j \in DOMAIN keyword_lists[n][2] : ~Contains(keyword_lists[n][2][j], text)

\* the cases in which no keyword of any team, and those in which no keyword
\* of any level, occurs in the lowercased subject-plus-body text
AgentCases == {<<cfg, text>> : cfg \in AgentConfigs, text \in MailTexts}

NoTeamKeywordCases ==
    {c \in AgentCases :
        NoKeywordIn(c[1].team_keywords, Lower(c[2][1] \o " " \o c[2][2]))}

NoPriorityKeywordCases ==
    {c \in AgentCases :
        NoKeywordIn(c[1].priority_keywords, Lower(c[2][1] \o " " \o c[2][2]))}

\* C12: when no keyword of any configured team occurs in the text, the incident
\* is assigned the configured default team name and default address and a note
\* of the assignment states that no team keyword matched; when no priority
\* keyword occurs either, the priority is P3 and, up to the end of the
\* lifecycle, no ticket creation is requested and no ticket key is set.
C12_NoMatchGivesDefaults ==
    \A i \in DOMAIN new_incidents :
        LET notes == new_incidents[i].processing_notes
            case == <<config, <<new_incidents[i].subject, new_incidents[i].body>> >>
        IN  /\ case \in AgentCases
            /\ IsClassified(new_incidents[i]) /\ case \in NoTeamKeywordCases
               => /\ new_incidents[i].assigned_team = config.default_team_name
                  /\ new_incidents[i].assigned_team_email = config.default_team_email
                  /\ \E n \in DOMAIN notes :
                        /\ notes[n] = DefaultTeamNote(config)
                        /\ StartsWith(notes[n], "No specific team keywords matched")
                  /\ case \in NoPriorityKeywordCases
                         => /\ new_incidents[i].priority = "P3"
                            /\ new_incidents[i].creates = <<>>
                            /\ new_incidents[i].jira_ticket_key = None

\* scenario B: "minor UI glitch" / "button misaligned" matches no table and
\* has reached the end of its lifecycle
C12_Witness ==
    \E i \in DOMAIN new_incidents :
        /\ new_incidents[i].stage = "Done"
        /\ new_incidents[i].subject = "minor UI glitch"
        /\ new_incidents[i].body = "button misaligned"
        /\ config.team_keywords # <<>>
        /\ MatchingTeams(config, new_incidents[i]) = {}
        /\ MatchingLevels(config, new_incidents[i]) = {}
        /\ new_incidents[i].priority = "P3"
        /\ new_incidents[i].assigned_team = "SupportTeam"
        /\ new_incidents[i].assigned_team_email = "support@example.com"
        /\ new_incidents[i].creates = <<>>

\* C1: over all cycles of one process, however often messages with the same
\* normalized identifier are delivered, exactly one Incident with that
\* identifier is produced and run through the lifecycle; later deliveries are
\* skipped.
C1_OneIncidentPerId ==
    /\ \A id \in processed_incident_ids :
          /\ Count(produced, id) = 1
          /\ Count(lifecycle_runs, id) <= 1
          /\ pc \in {"idle", "finished"} => Count(lifecycle_runs, id) = 1
    /\ \A n \in DOMAIN produced : produced[n] \in processed_incident_ids
    /\ \A n \in DOMAIN lifecycle_runs : Count(produced, lifecycle_runs[n]) = 1
    /\ \A k \in DOMAIN new_incidents : Count(produced, new_incidents[k].id) = 1

\* two messages with the same identifier were fetched and marked, the second
\* one in the second cycle, which produced nothing: one Incident came of them
C1_Witness ==
    /\ pc = "idle"
    /\ cycles = 2
    /\ Len(inbox) = 2
    /\ inbox[1].msg = MailOutage /\ inbox[1].seen
    /\ inbox[2].msg = MailOutage /\ inbox[2].seen
    /\ new_incidents = <<>>
    /\ produced = <<"m1@mail">>
    /\ lifecycle_runs = <<"m1@mail">>

\* C2: an unexpected failure in the lifecycle of one incident of a batch is
\* caught at the batch loop, the incident gets a failure note, and every
\* incident after it in the batch still has its lifecycle run.
C2_FailureIsolated ==
    \A k \in DOMAIN new_incidents :
        /\ new_incidents[k].stage = "Failed"
              => /\ new_incidents[k].failure # None
                 /\ StartsWith(LastNote(new_incidents[k]),
                               "CRITICAL AGENT ERROR during processing: ")
        /\ pc = "finished"
              => /\ new_incidents[k].stage \in {"Done", "Failed"}
                 /\ Count(lifecycle_runs, new_incidents[k].id) = 1
                 /\ new_incidents[k].processing_notes[1] = ReceivedNote(config)

\* the first incident of the batch failed and the second one was taken
\* through its lifecycle after that
C2_Witness ==
    /\ pc = "finished"
    /\ Len(new_incidents) = 2
    /\ new_incidents[1].stage = "Failed"
    /\ new_incidents[2].stage = "Done"
    /\ new_incidents[2].processing_notes[1] = ReceivedNote(config)

SendFailed(incident) ==
    incident.sends # <<>> /\ incident.sends[Len(incident.sends)].outcome # "sent"

CreateFailed(incident) ==
    incident.creates # <<>> /\ incident.creates[Len(incident.creates)].outcome # "created"

InBatch(k) == k \in DOMAIN new_incidents

ReachedDone(k) == InBatch(k) /\ new_incidents[k].stage = "Done"

\* C3: every incident that enters the lifecycle reaches Done in the same pass
\* whatever the acknowledgement send and the ticket creation do: a failure of
\* either is caught in its step, recorded as a note, and the next step runs.
C3_LifecycleCompletes ==
    /\ [](\A k \in DOMAIN new_incidents :
             /\ SendFailed(new_incidents[k])
                   => /\ HasNote(new_incidents[k], "Failed to send acknowledgement")
                      /\ new_incidents[k].stage \in {"AckResolved", "Done", "Failed"}
             /\ CreateFailed(new_incidents[k])
                   => /\ HasNote(new_incidents[k], "creating")
                      /\ new_incidents[k].stage = "Done")
    /\ \A k \in 1..MaxInbox :
          (InBatch(k) /\ new_incidents[k].stage \notin Terminal) ~> ReachedDone(k)

\* the ticket creation failed and ended the lifecycle in the handler of the
\* batch loop, with no note of the ticket step
C3_Witness ==
    \E k \in DOMAIN new_incidents :
        /\ CreateFailed(new_incidents[k])
        /\ new_incidents[k].stage = "Failed"
        /\ new_incidents[k].failure = "AttributeError"
        /\ ~HasNote(new_incidents[k], "creating")

\* C4: in every reachable state an incident with a ticket key has priority
\* P1; no incident of priority P2, P3 or P4 carries a ticket key.
C4_TicketOnlyForP1 ==
    \A k \in DOMAIN new_incidents :
        new_incidents[k].jira_ticket_key # None => new_incidents[k].priority = "P1"

C4_Witness ==
    \E k, j \in DOMAIN new_incidents :
        /\ new_incidents[k].priority = "P1"
        /\ new_incidents[k].jira_ticket_key = "ITSM-1"
        /\ new_incidents[j].priority = "P3"
        /\ new_incidents[j].stage = "Done"
        /\ new_incidents[j].jira_ticket_key = None

\* how the notes of the reception, classification, assignment and
\* acknowledgement steps begin
NotesBeforeTicketStep ==
    {"Agent '", "Priority classified as ", "No specific priority keywords found.",
     "Keyword '", "Assigned to team '", "No specific team keywords matched",
     "Acknowledgement email ", "Failed to send acknowledgement email "}

\* C14: for an incident whose priority is not P1 no ticket creation is
\* requested from the Jira client, the ticket key stays unset and no note about
\* Jira or a ticket is added, up to the end of its lifecycle: every note it
\* carries is one of the steps before the ticket step.
C14_NoTicketBelowP1 ==
    \A k \in DOMAIN new_incidents :
        IsClassified(new_incidents[k]) /\ new_incidents[k].priority # "P1"
        => /\ new_incidents[k].creates = <<>>
           /\ new_incidents[k].jira_ticket_key = None
           /\ \A n \in DOMAIN new_incidents[k].processing_notes :
                 \E step \in NotesBeforeTicketStep :
                     StartsWith(new_incidents[k].processing_notes[n], step)

\* a P3 incident at the end of its lifecycle in a deployment whose Jira client
\* is connected and has created a ticket for a P1 incident of the same batch
C14_Witness ==
    \E k, j \in DOMAIN new_incidents :
        /\ jira_client
        /\ new_incidents[j].priority = "P1"
        /\ new_incidents[j].creates # <<>>
        /\ new_incidents[k].priority = "P3"
        /\ new_incidents[k].stage = "Done"
        /\ new_incidents[k].creates = <<>>
        /\ Len(new_incidents[k].processing_notes) = 4

\* C15: for a P1 incident in a deployment without a Jira client (not
\* configured, or the connection failed at start-up) no ticket creation is
\* requested and the ticket key stays unset; the ticket step appends exactly one
\* note, the one saying that the creation was skipped because the client is not
\* available; and the lifecycle ends in Done, never in a failure.
C15_SkipWhenJiraUnavailable ==
    \A k \in DOMAIN new_incidents :
        IsClassified(new_incidents[k]) /\ new_incidents[k].priority = "P1" /\ ~jira_client
        => LET notes == new_incidents[k].processing_notes
           IN  /\ new_incidents[k].creates = <<>>
               /\ new_incidents[k].jira_ticket_key = None
               /\ new_incidents[k].stage # "Failed"
               /\ pc = "finished" => new_incidents[k].stage = "Done"
               /\ Count(notes, JiraSkippedNote) =
                      (IF new_incidents[k].stage = "Done" THEN 1 ELSE 0)
               /\ new_incidents[k].stage = "Done"
                      => /\ notes[Len(notes)] = JiraSkippedNote
                         /\ \E step \in NotesBeforeTicketStep :
                               StartsWith(notes[Len(notes) - 1], step)

\* both ways of being without a client: a P1 incident is Done with the skip note
C15_Witness ==
    \E k \in DOMAIN new_incidents :
        /\ ~jira_client
        /\ JiraConfigured(config)
        /\ new_incidents[k].priority = "P1"
        /\ new_incidents[k].stage = "Done"
        /\ LastNote(new_incidents[k]) = JiraSkippedNote

C15_WitnessNotConfigured ==
    \E k \in DOMAIN new_incidents :
        /\ ~jira_client
        /\ ~JiraConfigured(config)
        /\ new_incidents[k].priority = "P1"
        /\ new_incidents[k].stage = "Done"
        /\ LastNote(new_incidents[k]) = JiraSkippedNote

\* the deployments and messages of the agent for which the parser's answer is
\* that the message is no incident
RejectedCases ==
    {c \in {<<cfg, m>> : cfg \in AgentConfigs, m \in Mails} :
        ~c[2].parses \/ FilterApplies(c[2], c[1].sender_email)}

IsSummaryOf(note, incident) ==
    /\ Contains(incident.priority, note)
    /\ Contains(incident.assigned_team, note)
    /\ Contains(IF incident.jira_ticket_key = None THEN "None"
                ELSE incident.jira_ticket_key, note)
    /\ Contains(IF incident.is_acknowledged THEN "True" ELSE "False", note)

\* C19: an incident that has reached Done carries, as its last note, a summary
\* of its final priority, team, ticket key and acknowledgement status.
C19_SummaryNoteAtDone ==
    \A k \in DOMAIN new_incidents :
        new_incidents[k].stage = "Done"
            => IsSummaryOf(LastNote(new_incidents[k]), new_incidents[k])

\* an incident is Done and the last of its notes is the one of the
\* acknowledgement step
C19_Witness ==
    \E k \in DOMAIN new_incidents :
        /\ new_incidents[k].stage = "Done"
        /\ new_incidents[k].priority = "P3"
        /\ new_incidents[k].is_acknowledged
        /\ StartsWith(LastNote(new_incidents[k]), "Acknowledgement email sent to ")
        /\ \A n \in DOMAIN new_incidents[k].processing_notes :
              ~IsSummaryOf(new_incidents[k].processing_notes[n], new_incidents[k])

\* C5: is_acknowledged is true only if an acknowledgement send for the
\* incident was requested and succeeded; before any send, after a failed send
\* and after a skipped send it is false.
C5_AcknowledgedOnlyAfterSend ==
    \A k \in DOMAIN new_incidents :
        /\ new_incidents[k].is_acknowledged
              => /\ new_incidents[k].sends # <<>>
                 /\ \A n \in DOMAIN new_incidents[k].sends :
                       new_incidents[k].sends[n].outcome = "sent"
        /\ new_incidents[k].stage \in {"Fetched", "Classified"}
              => ~new_incidents[k].is_acknowledged
        /\ HasNoteStarting(new_incidents[k], "Failed to send acknowledgement")
              => ~new_incidents[k].is_acknowledged
        /\ HasNoteStarting(new_incidents[k], "Acknowledgement email skipped")
              => ~new_incidents[k].is_acknowledged /\ new_incidents[k].sends = <<>>

C5_Witness ==
    \E k \in DOMAIN new_incidents :
        /\ new_incidents[k].is_acknowledged
        /\ new_incidents[k].sends =
               <<[to |-> "dba@example.com", outcome |-> "sent", jira_ticket_key |-> None]>>

\* C6: when the acknowledgement send fails, is_acknowledged stays false, a
\* note containing "Failed to send acknowledgement" is appended, the lifecycle
\* still reaches Done, and for a P1 incident the ticket step is still attempted.
C6_SendFailureDoesNotBlock ==
    /\ [](\A k \in DOMAIN new_incidents :
             SendFailed(new_incidents[k])
                => /\ ~new_incidents[k].is_acknowledged
                   /\ HasNote(new_incidents[k], "Failed to send acknowledgement")
                   /\ new_incidents[k].failure \notin SmtpOutcomes
                   /\ new_incidents[k].stage \in {"AckResolved", "Done", "Failed"}
                   /\ pc = "finished" => new_incidents[k].stage = "Done"
                   /\ new_incidents[k].stage = "Done" /\ new_incidents[k].priority = "P1"
                         => \/ new_incidents[k].creates # <<>>
                            \/ HasNote(new_incidents[k], "Jira ticket creation skipped"))
    /\ \A k \in 1..MaxInbox :
          (InBatch(k) /\ SendFailed(new_incidents[k])) ~> ReachedDone(k)

\* the send failed, the ticket step was attempted, and the lifecycle ended in
\* the handler of the batch loop instead of Done
C6_Witness ==
    \E k \in DOMAIN new_incidents :
        /\ SendFailed(new_incidents[k])
        /\ HasNote(new_incidents[k], "Failed to send acknowledgement")
        /\ new_incidents[k].priority = "P1"
        /\ new_incidents[k].creates # <<>>
        /\ new_incidents[k].stage = "Failed"
        /\ new_incidents[k].failure = "AttributeError"

\* ---------------------------------------------------------------- claims on the cycle

\* C22: a message the fetch loop consumed is marked as seen in the same cycle
\* whatever became of it; stated for the outcome that shows in the state, the
\* message that was turned into an incident: the step that appends its incident
\* to the cycle's list leaves the message marked as seen.
C22_ConsumedIsMarked ==
    [][pc = "fetch" /\ Len(new_incidents') > Len(new_incidents)
          => inbox'[Head(pending)].seen]_vars

\* the cycle holds the incident of a message that is still unseen in the mailbox
C22_Witness ==
    /\ pc = "process"
    /\ Len(inbox) = 1
    /\ ~inbox[1].seen
    /\ FromMessage(1) # {}

\* the positions of a cycle that is under way or has returned
Positions == {"idle", "fetch", "process", "finished"}

\* C23: run_incident_check_cycle never hands an error to its caller: whatever
\* the mail server, the acknowledgement send, the ticket creation or a step of
\* an incident's lifecycle does, the cycle stays at one of its positions, and
\* a cycle that was started returns.
C23_CycleAbsorbsErrors ==
    /\ [](pc \in Positions)
    /\ (pc # "idle") ~> (pc = "idle")

\* the loop is past an incident whose lifecycle ended in the handler of the
\* batch loop
C23_Witness ==
    /\ pc = "finished"
    /\ \E k \in DOMAIN new_incidents :
          /\ new_incidents[k].stage = "Failed"
          /\ new_incidents[k].failure # None
          /\ HasNoteStarting(new_incidents[k], "CRITICAL AGENT ERROR during processing: ")

\* what run_incident_check_cycle hands to its caller: the function has no
\* return statement
run_incident_check_cycle_Returns(newly_fetched_incidents) == None

\* C24: the cycle returns a report with the number of messages fetched, the
\* number of incidents processed and the list of the incidents in their
\* terminal state; the number processed is the number of lifecycles run.
C24_CycleReturnsReport ==
    pc = "finished"
        => LET report == run_incident_check_cycle_Returns(new_incidents)
           IN  /\ report # None
               /\ report.fetched = Len(new_incidents)
               /\ report.processed =
                      Cardinality({k \in DOMAIN new_incidents :
                                      IsClassified(new_incidents[k])})
               /\ report.incidents = new_incidents

\* a cycle that ran the lifecycle of two incidents is about to return
C24_Witness ==
    /\ pc = "finished"
    /\ Len(new_incidents) = 2
    /\ \A k \in DOMAIN new_incidents : new_incidents[k].stage \in Terminal

C27_OneNotePerDecision ==
    \A k \in DOMAIN new_incidents :
        LET incident == new_incidents[k]
            n == Len(incident.processing_notes)
        IN  /\ incident.stage = "Classified" => n = 3
            /\ incident.stage = "AckResolved" => n = 4
            /\ incident.stage = "Done" => n = (IF incident.priority = "P1" THEN 5 ELSE 4)

\* the team assignment of one incident has appended two notes: the matched team
\* has no address, and the default team
C27_Witness ==
    \E k \in DOMAIN new_incidents :
        /\ new_incidents[k].stage = "Classified"
        /\ Len(new_incidents[k].processing_notes) = 4
        /\ StartsWith(new_incidents[k].processing_notes[3], "Keyword 'db' matched team ")
        /\ new_incidents[k].processing_notes[4] = DefaultTeamNote(config)

\* the notes before are the first notes after
IsPrefix(old, new) == Len(old) <= Len(new) /\ SubSeq(new, 1, Len(old)) = old

\* C28: the notes of an incident are only appended to: with every step of the
\* lifecycle, the handling of a failure included, the notes the incident had
\* are the first notes it has afterwards, unchanged and in the same order.
C28_NotesAppendOnly ==
    [][pc = "process"
          => \A k \in DOMAIN new_incidents :
                 /\ k \in DOMAIN new_incidents'
                 /\ IsPrefix(new_incidents[k].processing_notes,
                             new_incidents'[k].processing_notes)]_vars

\* the handler of the batch loop has appended its note after the notes of the
\* steps before
C28_Witness ==
    \E k \in DOMAIN new_incidents :
        /\ new_incidents[k].stage = "Failed"
        /\ Len(new_incidents[k].processing_notes) >= 5
        /\ StartsWith(LastNote(new_incidents[k]), "CRITICAL AGENT ERROR during processing: ")
        /\ new_incidents[k].processing_notes[1] = ReceivedNote(config)

\* what the claim compares of an incident after its lifecycle
Outcome(incident) ==
    <<incident.processing_notes, incident.priority, incident.assigned_team,
      incident.is_acknowledged, incident.jira_ticket_key, incident.stage>>

\* the incidents the parser makes of the agent's mail, as the fetch loop
\* hands them to the lifecycle
FreshIncidents ==
    UNION {LET parsed == parse_email_to_incident(ToString(uid), m, cfg.sender_email)
           IN  IF IsIncident(parsed) THEN {parsed[1]} ELSE {} :
           cfg \in AgentConfigs, m \in Mails, uid \in 1..MaxInbox}

TicketKeys ==
    {None} \cup {cfg.jira_project_key \o "-" \o ToString(i) :
                    cfg \in AgentConfigs, i \in 1..MaxInbox}

\* the lifecycle run on a fresh incident, for every rule table, every incident
\* and every answer of the collaborators
ReplayTable ==
    {<<cfg, client, incident, ack_outcome, ticket_outcome, key,
       Outcome(process_single_incident(cfg, client, incident,
                                       ack_outcome, ticket_outcome, key))>> :
        cfg \in AgentConfigs, client \in BOOLEAN, incident \in FreshIncidents,
        ack_outcome \in SmtpOutcomes, ticket_outcome \in JiraOutcomes,
        key \in TicketKeys}

Created(incident) ==
    <<incident.id, incident.source, incident.subject, incident.body, incident.raw_content>>

\* C30: no step of the lifecycle changes the id, source, subject, body or raw
\* content of an incident: classification, the acknowledgement step, the ticket
\* step and the handling of a failure leave them as the parser set them.
C30_CreationFieldsKept ==
    [][pc = "process"
          => \A k \in DOMAIN new_incidents :
                 /\ k \in DOMAIN new_incidents'
                 /\ Created(new_incidents'[k]) = Created(new_incidents[k])]_vars

\* an incident went through all steps and through the failure handler with the
\* fields the parser gave it
C30_Witness ==
    \E k \in DOMAIN new_incidents :
        /\ new_incidents[k].stage = "Failed"
        /\ new_incidents[k].is_acknowledged
        /\ Created(new_incidents[k]) =
               <<"m1@mail", "email", "URGENT: Database outage", "production db is down", "outage">>

\* ---------------------------------------------------------------- claims on the steps

\* C31: within one cycle the acknowledgement send is asked of the SMTP server
\* at most once for an incident and the ticket creation is asked of Jira at most
\* once, also when the request has failed.
C31_NoRetry ==
    \A k \in DOMAIN new_incidents :
        /\ Len(new_incidents[k].sends) <= 1
        /\ Len(new_incidents[k].creates) <= 1

\* an incident is past both steps with one send that failed and one ticket
\* creation that failed
C31_Witness ==
    \E k \in DOMAIN new_incidents :
        /\ new_incidents[k].stage = "Done"
        /\ Len(new_incidents[k].sends) = 1
        /\ new_incidents[k].sends[1].outcome = "SMTPException"
        /\ Len(new_incidents[k].creates) = 1
        /\ new_incidents[k].creates[1].outcome = "JIRAError"

\* the step a note was written by: 1 reception, 2 priority, 3 team,
\* 4 acknowledgement, 5 ticket or failure handler
NoteStep(note) ==
    IF StartsWith(note, "Agent '") THEN 1
    ELSE IF \/ StartsWith(note, "Priority classified as ")
            \/ StartsWith(note, "No specific priority keywords found.") THEN 2
    ELSE IF \/ StartsWith(note, "Keyword '")
            \/ StartsWith(note, "Assigned to team '")
            \/ StartsWith(note, "No specific team keywords matched") THEN 3
    ELSE IF \/ StartsWith(note, "Acknowledgement email ")
            \/ StartsWith(note, "Failed to send acknowledgement email ") THEN 4
    ELSE 5

\* C32: in a lifecycle the priority is classified before the team is assigned,
\* both are set before the acknowledgement is attempted, and the
\* acknowledgement step is over before a ticket creation is requested; the
\* notes stand in that order; classification never fails the incident.
C32_StepOrder ==
    \A k \in DOMAIN new_incidents :
        IsClassified(new_incidents[k])
        => LET incident == new_incidents[k]
               notes == incident.processing_notes
           IN  /\ NoteStep(notes[1]) = 1 /\ NoteStep(notes[2]) = 2 /\ NoteStep(notes[3]) = 3
               /\ \A n \in 1..(Len(notes) - 1) : NoteStep(notes[n]) <= NoteStep(notes[n + 1])
               /\ incident.priority \in {"P1", "P2", "P3", "P4"}
               /\ incident.assigned_team # None
               /\ \A n \in DOMAIN incident.sends :
                     incident.sends[n].to = incident.assigned_team_email
               /\ incident.creates # <<>> \/ incident.stage = "Failed"
                     => \E n \in DOMAIN notes : NoteStep(notes[n]) = 4

\* the notes of all five steps on one incident
C32_Witness ==
    \E k \in DOMAIN new_incidents :
        /\ new_incidents[k].stage = "Done"
        /\ Len(new_incidents[k].processing_notes) = 5
        /\ new_incidents[k].sends # <<>>
        /\ new_incidents[k].creates # <<>>
        /\ StartsWith(new_incidents[k].processing_notes[4], "Acknowledgement email sent to ")
        /\ StartsWith(new_incidents[k].processing_notes[5], "Jira ticket ")

\* C33: an incident for which no team address was resolved gets no
\* acknowledgement send, is_acknowledged stays false and a note says that the
\* acknowledgement was skipped; its lifecycle goes on to the ticket step, for a
\* P1 incident, and ends in Done.
C33_NoAddressSkipsAcknowledgement ==
    /\ [](\A k \in DOMAIN new_incidents :
             /\ IsClassified(new_incidents[k])
             /\ ~Truthy(new_incidents[k].assigned_team_email)
             /\ new_incidents[k].stage # "Classified"
             => /\ new_incidents[k].sends = <<>>
                /\ ~new_incidents[k].is_acknowledged
                /\ Count(new_incidents[k].processing_notes,
                         "Acknowledgement email skipped: No assigned team email was determined.") = 1)
    /\ [][pc = "process"
             => \A k \in DOMAIN new_incidents :
                    /\ new_incidents[k].stage = "AckResolved"
                    /\ new_incidents'[k].stage # "AckResolved"
                    /\ ~Truthy(new_incidents[k].assigned_team_email)
                    => /\ new_incidents'[k].stage = "Done"
                       /\ new_incidents[k].priority = "P1" /\ jira_client
                              => new_incidents'[k].creates # <<>>]_vars

\* a P1 incident without a team address, for which nothing was sent, has left
\* the ticket step through the handler of the batch loop
C33_Witness ==
    \E k \in DOMAIN new_incidents :
        /\ new_incidents[k].stage = "Failed"
        /\ new_incidents[k].priority = "P1"
        /\ new_incidents[k].assigned_team_email = ""
        /\ new_incidents[k].sends = <<>>
        /\ HasNoteStarting(new_incidents[k], "Acknowledgement email skipped: No assigned")
        /\ new_incidents[k].creates # <<>>

\* ---------------------------------------------------------------- claims on the store of processed ids

\* the ids of the incidents of the batch whose lifecycle has not started
RECURSIVE Waiting(_)
Waiting(batch) ==
    IF batch = <<>> THEN <<>>
    ELSE (IF Head(batch).stage = "Fetched" THEN <<Head(batch).id>> ELSE <<>>)
         \o Waiting(Tail(batch))

\* C34: every id added to processed_incident_ids in a cycle belongs to an
\* incident whose lifecycle is started in the same cycle, also when an error
\* of fetch or store ends the fetch loop early: the ids recorded are those of
\* the lifecycles started followed by those of the incidents waiting in the
\* batch, and when the cycle has returned none is waiting.
C34_RecordedIsProcessed ==
    /\ produced = lifecycle_runs \o Waiting(new_incidents)
    /\ pc \in {"idle", "finished"} => produced = lifecycle_runs

\* the first cycle is over: store raised after the first message had become an
\* incident, the second message was not fetched, and the incident was processed
C34_Witness ==
    /\ pc = "finished"
    /\ cycles = 1
    /\ Len(inbox) = 2
    /\ ~inbox[1].seen /\ ~inbox[2].seen
    /\ inbox[2].msg = MailGlitch
    /\ produced = <<"m1@mail">>
    /\ lifecycle_runs = <<"m1@mail">>

\* C35: the id of an incident is in processed_incident_ids before its lifecycle
\* runs, and a lifecycle is never started for an id whose lifecycle was started
\* before, whatever became of the first run (failure in the handler of the
\* batch loop, failed send, failed ticket creation) and however often the id is
\* delivered again.
C35_AtMostOnceAfterFailure ==
    [][lifecycle_runs' # lifecycle_runs
          => LET id == lifecycle_runs'[Len(lifecycle_runs')]
             IN  /\ lifecycle_runs' = Append(lifecycle_runs, id)
                 /\ id \in processed_incident_ids
                 /\ Count(lifecycle_runs, id) = 0]_vars

\* second cycle: the message of a P1 incident whose ticket creation had failed
\* in the first cycle was delivered again and gave no incident
C35_Witness ==
    /\ cycles = 2
    /\ pc = "fetch"
    /\ pending = <<2>>
    /\ inbox[1].msg = MailOutage
    /\ jira_client
    /\ issued = 0
    /\ lifecycle_runs = <<"m1@mail">>
    /\ processed_incident_ids = {"m1@mail"}
    /\ new_incidents = <<>>

\* C36: when the acknowledgement send is requested for an incident, of whatever
\* priority, its ticket key is unset, and no ticket creation has been requested
\* for it: the acknowledgement never carries a ticket key.
C36_AcknowledgementWithoutKey ==
    /\ \A k \in DOMAIN new_incidents :
          \A n \in DOMAIN new_incidents[k].sends :
              new_incidents[k].sends[n].jira_ticket_key = None
    /\ \A k \in DOMAIN new_incidents :
          new_incidents[k].stage \in {"Fetched", "Classified"}
              => new_incidents[k].jira_ticket_key = None /\ new_incidents[k].creates = <<>>

\* a P1 incident carries a ticket key; at the time of its acknowledgement
\* send, which was made, it had none
C36_Witness ==
    \E k \in DOMAIN new_incidents :
        /\ new_incidents[k].stage = "Done"
        /\ new_incidents[k].is_acknowledged
        /\ new_incidents[k].jira_ticket_key = "ITSM-1"
        /\ Len(new_incidents[k].sends) = 1
        /\ new_incidents[k].sends[1].jira_ticket_key = None

\* ---------------------------------------------------------------- claims on the assignment

\* team name and address are those of a configured team with a keyword in the
\* text, which has an address of its own
IsMatchedTeamPair(cfg, incident) ==
    \E t \in DOMAIN cfg.team_keywords :
        /\ incident.assigned_team = cfg.team_keywords[t][1]
        /\ incident.assigned_team_email =
               Get(cfg.team_emails, Lower(cfg.team_keywords[t][1]), None)
        /\ \E j \in DOMAIN cfg.team_keywords[t][2] :
              Contains(cfg.team_keywords[t][2][j], ScannedText(incident))

IsDefaultPair(cfg, incident) ==
    /\ incident.assigned_team = cfg.default_team_name
    /\ incident.assigned_team_email = cfg.default_team_email

\* C37: after the team assignment the team name and the team address of an
\* incident are both set, and they belong together: a configured team with a
\* keyword in the text and that team's own address, or the default team and
\* the default address.
C37_TeamAndAddressSet ==
    \A k \in DOMAIN new_incidents :
        new_incidents[k].stage = "Classified"
        => /\ Truthy(new_incidents[k].assigned_team)
           /\ Truthy(new_incidents[k].assigned_team_email)
           /\ \/ IsMatchedTeamPair(config, new_incidents[k])
              \/ IsDefaultPair(config, new_incidents[k])

\* an incident was assigned to the default team with an empty address
C37_Witness ==
    \E k \in DOMAIN new_incidents :
        /\ new_incidents[k].stage = "Classified"
        /\ new_incidents[k].assigned_team = "SupportTeam"
        /\ new_incidents[k].assigned_team_email = ""
        /\ config.default_team_email = ""

\* ---------------------------------------------------------------- claims on the outcome fields

\* C38: once is_acknowledged is true it does not become false again, and once
\* the ticket key is set it is neither cleared nor replaced, in any later step
\* on that incident; and a ticket key is set only on an incident that had none.
C38_OutcomeFieldsMonotonic ==
    [][\A k \in DOMAIN new_incidents :
           k \in DOMAIN new_incidents' /\ new_incidents'[k].id = new_incidents[k].id
           => /\ new_incidents[k].is_acknowledged => new_incidents'[k].is_acknowledged
              /\ new_incidents[k].jira_ticket_key # None
                    => new_incidents'[k].jira_ticket_key = new_incidents[k].jira_ticket_key]_vars

\* an acknowledged incident ended in the handler of the batch loop and is
\* still acknowledged
C38_Witness ==
    \E k \in DOMAIN new_incidents :
        /\ new_incidents[k].stage = "Failed"
        /\ new_incidents[k].is_acknowledged
        /\ new_incidents[k].sends # <<>>
        /\ new_incidents[k].creates # <<>>

====
